---- MODULE Spec2Model ----
(***************************************************************************)
(* Credential core of Siri-Ferrugem (src/Siri/src/auth.rs, db.rs,          *)
(* error.rs): register_user, login_user and change_password running        *)
(* against the SQLite table `users`.                                       *)
(*                                                                         *)
(* Every call is a sequence of steps; a step is one SQL statement together *)
(* with the local computation that precedes it (and, for the last          *)
(* statement of a call, follows it).  SQLite runs each statement           *)
(* atomically, so callers that share users.db interleave between           *)
(* statements and nowhere else.  register_user and change_password are two *)
(* steps (SELECT, then INSERT or UPDATE); login_user is one.               *)
(***************************************************************************)
EXTENDS Integers, Sequences, FiniteSets, TLC

VARIABLES
    users,      \* the rows of table `users` (db.rs init_tables)
    now,        \* the store's CURRENT_TIMESTAMP, never decreasing
    calls,      \* number of calls started so far
    pc,         \* pc[p]: where caller p is inside its call
    op,         \* op[p]: the function caller p is running
    args,       \* args[p]: username, password, new_password of the call
    local,      \* local[p]: the call's local variables
    result,     \* result[p]: the AuthResult the call returned
    trace,      \* trace[p]: the functions and statements the call ran, in order
    existed,    \* existed[p]: the username had a row when the call started
    cred        \* cred[u]: the password last written for u, and by which call

vars == <<users, now, calls, pc, op, args, local, result, trace, existed, cred>>

----------------------------------------------------------------------------
(* Bounds of the model. *)

\* Total number of calls the callers start.
MaxCalls == 3

\* The callers that share users.db.
Procs == {1, 2}
\* The salts SaltString::generate(&mut OsRng) can draw.
Salts == {1, 2}
\* The values CURRENT_TIMESTAMP takes.
Timestamps == {0, 1}

----------------------------------------------------------------------------
(* Inputs.  A password is the sequence of its characters.  The character   *)
(* classes list the members that occur in the inputs below.                *)

Digits == {"0", "1", "2", "3", "4", "5", "6", "7", "8", "9"}
Uppers == {"S", "N", "P"}
Lowers == {"a", "c", "e", "g", "n", "o", "r", "s", "t", "w"}
Specials == {"!", "@", "#", "$", "%", "^", "&", "*", "(", ")", "_", "+", "-",
             "=", "[", "]", "{", "}", "|", ";", ":", ",", ".", "<", ">", "?"}
\* Characters that take two bytes in UTF-8.
TwoByteChars == {"e_acute"}

Secret123 == <<"S", "e", "c", "r", "e", "t", "1", "2", "3">>
NewPass99 == <<"N", "e", "w", "P", "a", "s", "s", "9", "9">>
Wrong     == <<"w", "r", "o", "n", "g">>
EmptyStr  == <<>>

Usernames == {"", "alice", "bob"}
Passwords == {EmptyStr, Wrong, Secret123, NewPass99}

NoArgs == [username |-> "", password |-> EmptyStr, new_password |-> EmptyStr]

----------------------------------------------------------------------------
(* AuthResult<T> and AuthError (error.rs). *)

Ok(v) == [tag |-> "Ok", value |-> v, error |-> "None", fmt |-> "", arg |-> ""]
Err(class, fmt, arg) ==
    [tag |-> "Err", value |-> "None", error |-> class, fmt |-> fmt, arg |-> arg]
Unit == "()"
\* Ok(true) / Ok(false) of AuthResult<bool>
OkBool(b) == Ok(IF b THEN "true" ELSE "false")
NoResult == [tag |-> "None", value |-> "None", error |-> "None", fmt |-> "", arg |-> ""]

\* impl From<rusqlite::Error> for AuthError: every store error becomes Database.
FromRusqliteError(e) == Err("Database", e, "")

\* Option<T>: None is the empty sequence, Some(x) the sequence <<x>>.
None == <<>>
Some(x) == <<x>>

----------------------------------------------------------------------------
(* Policy validator (auth.rs 12-70). *)

PasswordConfigDefault ==
    [min_length |-> 8, require_digit |-> TRUE, require_uppercase |-> FALSE,
     require_lowercase |-> FALSE, require_special |-> FALSE]

\* str::len(): the length in bytes of the UTF-8 encoding.
RECURSIVE StrLen(_)
StrLen(s) ==
    IF s = <<>> THEN 0
    ELSE (IF Head(s) \in TwoByteChars THEN 2 ELSE 1) + StrLen(Tail(s))

\* str::is_empty()
IsEmpty(s) == StrLen(s) = 0

\* password.chars().any(|c| class(c))
AnyChar(s, class) == \E i \in 1..Len(s) : s[i] \in class

validate_credentials(username, password) ==
    IF username = ""
    THEN Err("Validation", "Nome de usuario nao pode estar vazio", "")
    ELSE IF IsEmpty(password)
    THEN Err("Validation", "Senha nao pode estar vazia", "")
    ELSE Ok(Unit)

\* validate_password_strength that looks for a digit before it looks at the
\* length.
validate_password_strength_digit_first(password, config) ==
    IF config.require_digit /\ ~AnyChar(password, Digits)
    THEN Err("Validation", "A senha deve conter pelo menos um numero", "")
    ELSE IF StrLen(password) < config.min_length
    THEN Err("Validation", "A senha deve ter pelo menos {} caracteres",
             ToString(config.min_length))
    ELSE IF config.require_uppercase /\ ~AnyChar(password, Uppers)
    THEN Err("Validation", "A senha deve conter pelo menos uma letra maiuscula", "")
    ELSE IF config.require_lowercase /\ ~AnyChar(password, Lowers)
    THEN Err("Validation", "A senha deve conter pelo menos uma letra minuscula", "")
    ELSE IF config.require_special /\ ~AnyChar(password, Specials)
    THEN Err("Validation", "A senha deve conter pelo menos um caractere especial", "")
    ELSE Ok(Unit)

validate_password_strength(password, config) ==
    IF StrLen(password) < config.min_length
    THEN Err("Validation", "A senha deve ter pelo menos {} caracteres",
             ToString(config.min_length))
    ELSE IF config.require_digit /\ ~AnyChar(password, Digits)
    THEN Err("Validation", "A senha deve conter pelo menos um numero", "")
    ELSE IF config.require_uppercase /\ ~AnyChar(password, Uppers)
    THEN Err("Validation", "A senha deve conter pelo menos uma letra maiuscula", "")
    ELSE IF config.require_lowercase /\ ~AnyChar(password, Lowers)
    THEN Err("Validation", "A senha deve conter pelo menos uma letra minuscula", "")
    ELSE IF config.require_special /\ ~AnyChar(password, Specials)
    THEN Err("Validation", "A senha deve conter pelo menos um caractere especial", "")
    ELSE Ok(Unit)

----------------------------------------------------------------------------
(* Hashing engine (auth.rs 72-99).                                         *)
(* A hash string is the sequence of the fields of the PHC string           *)
(* $argon2id$...$salt$digest.  Argon2 is modelled as an ideal function:    *)
(* the digest of (password, salt) is that pair.                            *)

Argon2Digest(password, salt) == <<password, salt>>

\* A stored value that is not a PHC string.
MalformedHash == <<"garbage">>

\* PasswordHash::new: parse the stored string into its fields.
PasswordHashNew(stored_hash) ==
    IF Len(stored_hash) = 3
    THEN [ok |-> TRUE, alg |-> stored_hash[1], salt |-> stored_hash[2],
          digest |-> stored_hash[3]]
    ELSE [ok |-> FALSE, alg |-> "", salt |-> 0, digest |-> <<>>]

\* hash_password that uses one salt for every call.
hash_password_fixed_salt(password, salt) ==
    Ok(<<"argon2id", 1, Argon2Digest(password, 1)>>)

hash_password(password, salt) ==
    Ok(<<"argon2id", salt, Argon2Digest(password, salt)>>)

\* Argon2::verify_password(..).is_ok()
Argon2Verify(password, parsed) ==
    parsed.alg = "argon2id" /\ Argon2Digest(password, parsed.salt) = parsed.digest

\* verify_password with .is_err() in place of .is_ok().
verify_password_is_err(password, stored_hash) ==
    LET parsed_hash == PasswordHashNew(stored_hash) IN
    IF ~parsed_hash.ok
    THEN Err("PasswordHashing", "Erro ao analisar hash: {}", "invalid")
    ELSE OkBool(~Argon2Verify(password, parsed_hash))

\* verify_password that parses the stored hash and never compares the digest.
verify_password_parse_only(password, stored_hash) ==
    LET parsed_hash == PasswordHashNew(stored_hash) IN
    IF ~parsed_hash.ok
    THEN Err("PasswordHashing", "Erro ao analisar hash: {}", "invalid")
    ELSE OkBool(TRUE)

\* verify_password that treats a hash it cannot parse as a failed match.
verify_password_malformed_false(password, stored_hash) ==
    LET parsed_hash == PasswordHashNew(stored_hash) IN
    IF ~parsed_hash.ok
    THEN OkBool(FALSE)
    ELSE OkBool(Argon2Verify(password, parsed_hash))

verify_password(password, stored_hash) ==
    LET parsed_hash == PasswordHashNew(stored_hash) IN
    IF ~parsed_hash.ok
    THEN Err("PasswordHashing", "Erro ao analisar hash: {}", "invalid")
    ELSE OkBool(Argon2Verify(password, parsed_hash))

\* dummy_hash_operation: one Argon2 computation whose result is dropped.
dummy_hash_operation == <<"dummy_hash_operation", "argon2">>

----------------------------------------------------------------------------
(* The store: table `users` (db.rs 21-32) and the statements auth.rs runs. *)

Row(id, username, password_hash, created_at) ==
    [id |-> id, username |-> username, password_hash |-> password_hash,
     created_at |-> created_at]

RowsOf(rows, username) == {r \in rows : r.username = username}

\* id INTEGER PRIMARY KEY: SQLite assigns the largest rowid plus one.
NextRowId(rows) ==
    IF rows = {} THEN 1
    ELSE (CHOOSE i \in {r.id : r \in rows} : \A r \in rows : r.id <= i) + 1

\* SELECT COUNT(*) > 0 FROM users WHERE username = ?1
SelectUserExists(rows, username) == Cardinality(RowsOf(rows, username)) > 0

\* SELECT password_hash FROM users WHERE username = ?1, query_row().optional():
\* the values the statement can return.
SelectPasswordHash(rows, username) ==
    IF RowsOf(rows, username) = {} THEN {None}
    ELSE {Some(r.password_hash) : r \in RowsOf(rows, username)}

\* The INSERT on a table whose username column is not UNIQUE.
InsertUserNoUnique(rows, username, password_hash, t) ==
    [ok |-> TRUE, error |-> "",
     rows |-> rows \cup {Row(NextRowId(rows), username, password_hash, t)}]

\* INSERT OR REPLACE: the new row takes the place of the row of the username.
InsertUserOrReplace(rows, username, password_hash, t) ==
    [ok |-> TRUE, error |-> "",
     rows |-> {r \in rows : r.username # username}
              \cup {Row(NextRowId(rows), username, password_hash, t)}]

\* INSERT INTO users (username, password_hash) VALUES (?1, ?2); the column
\* username is UNIQUE, created_at defaults to CURRENT_TIMESTAMP.
InsertUser(rows, username, password_hash, t) ==
    IF RowsOf(rows, username) # {}
    THEN [ok |-> FALSE, error |-> "ConstraintViolation", rows |-> rows]
    ELSE [ok |-> TRUE, error |-> "",
          rows |-> rows \cup {Row(NextRowId(rows), username, password_hash, t)}]

\* The UPDATE that reports its rows and writes none of them.
UpdatePasswordHashNoWrite(rows, new_hash, username) ==
    [changes |-> Cardinality(RowsOf(rows, username)), rows |-> rows]

\* The UPDATE without its WHERE clause.
UpdatePasswordHashNoWhere(rows, new_hash, username) ==
    [changes |-> Cardinality(rows),
     rows |-> {[r EXCEPT !.password_hash = new_hash] : r \in rows}]

\* UPDATE users SET password_hash = ?1 WHERE username = ?2
UpdatePasswordHash(rows, new_hash, username) ==
    [changes |-> Cardinality(RowsOf(rows, username)),
     rows |-> {IF r.username = username
               THEN [r EXCEPT !.password_hash = new_hash] ELSE r : r \in rows}]

\* users.db as Database::new may find it: no row yet, or a row whose
\* password_hash column (TEXT NOT NULL) holds text that is no hash string.
InitialStores == {{}, {Row(1, "bob", MalformedHash, 0)}}

----------------------------------------------------------------------------
(* State of the callers. *)

NoLocal == [password_hash |-> None]
NoCred == [by |-> "none", password |-> EmptyStr, prev |-> EmptyStr]

Init ==
    /\ users \in InitialStores
    /\ now = 0
    /\ calls = 0
    /\ pc = [p \in Procs |-> "idle"]
    /\ op = [p \in Procs |-> "none"]
    /\ args = [p \in Procs |-> NoArgs]
    /\ local = [p \in Procs |-> NoLocal]
    /\ result = [p \in Procs |-> NoResult]
    /\ trace = [p \in Procs |-> <<>>]
    /\ existed = [p \in Procs |-> FALSE]
    /\ cred = [u \in Usernames |-> NoCred]

\* A returned result is read by its caller before any caller takes another
\* step: returning touches nothing shared, so this loses no interleaving of
\* the statements.
NoneReturning == \A q \in Procs : pc[q] # "done"

\* A call starts: its arguments are bound.
Begin(p, name, a) ==
    /\ pc[p] = "idle"
    /\ NoneReturning
    /\ calls < MaxCalls
    /\ calls' = calls + 1
    /\ op' = [op EXCEPT ![p] = name]
    /\ args' = [args EXCEPT ![p] = a]
    /\ existed' = [existed EXCEPT ![p] = SelectUserExists(users, a.username)]

\* The call returns r after running the events ev.
Finish(p, r, ev) ==
    /\ pc' = [pc EXCEPT ![p] = "done"]
    /\ result' = [result EXCEPT ![p] = r]
    /\ trace' = [trace EXCEPT ![p] = trace[p] \o ev]

\* The call goes on to step next after running the events ev.
Goto(p, next, ev) ==
    /\ pc' = [pc EXCEPT ![p] = next]
    /\ trace' = [trace EXCEPT ![p] = trace[p] \o ev]
    /\ UNCHANGED result

----------------------------------------------------------------------------
(* login_user (auth.rs 134-163). *)

\* login_user that returns at once when the SELECT finds no row.
login_user_found_no_decoy(password, stored_hash) ==
    IF stored_hash = None
    THEN [result |-> OkBool(FALSE), events |-> <<>>]
    ELSE [result |-> verify_password(password, stored_hash[1]),
          events |-> IF PasswordHashNew(stored_hash[1]).ok
                     THEN <<"verify_password", "argon2">>
                     ELSE <<"verify_password">>]

\* login_user that reports a missing row as a NotFound error.
login_user_found_not_found(password, stored_hash) ==
    IF stored_hash = None
    THEN [result |-> Err("NotFound", "Usuario nao encontrado", ""),
          events |-> dummy_hash_operation]
    ELSE [result |-> verify_password(password, stored_hash[1]),
          events |-> IF PasswordHashNew(stored_hash[1]).ok
                     THEN <<"verify_password", "argon2">>
                     ELSE <<"verify_password">>]

\* Lines 149-162: what login_user does with the value the SELECT returned,
\* as the result and the events run.
login_user_found(password, stored_hash) ==
    IF stored_hash = None
    THEN [result |-> OkBool(FALSE), events |-> dummy_hash_operation]
    ELSE [result |-> verify_password(password, stored_hash[1]),
          events |-> IF PasswordHashNew(stored_hash[1]).ok
                     THEN <<"verify_password", "argon2">>
                     ELSE <<"verify_password">>]

\* Lines 134-163: the outcomes login_user can have on the rows of the store.
login_user(rows, username, password) ==
    LET v == validate_credentials(username, password) IN
    IF v.tag = "Err"
    THEN {[result |-> v, events |-> <<"validate_credentials">>]}
    ELSE {[result |-> login_user_found(password, stored_hash).result,
           events |-> <<"validate_credentials", "select_password_hash">>
                      \o login_user_found(password, stored_hash).events] :
          stored_hash \in SelectPasswordHash(rows, username)}

\* login_user that removes the row whose stored hash it could not verify.
LoginUserRemovesRow(p) ==
    /\ \E u \in Usernames, pw \in Passwords :
          /\ Begin(p, "login_user",
                   [username |-> u, password |-> pw, new_password |-> EmptyStr])
          /\ \E o \in login_user(users, u, pw) :
                /\ Finish(p, o.result, o.events)
                /\ users' = IF o.result.tag = "Err" \/ o.result.value = "false"
                            THEN {r \in users : r.username # u}
                            ELSE users
    /\ UNCHANGED <<now, local, cred>>

\* Lines 134-163: login_user as one step, its only statement being the SELECT.
LoginUser(p) ==
    /\ \E u \in Usernames, pw \in Passwords :
          /\ Begin(p, "login_user",
                   [username |-> u, password |-> pw, new_password |-> EmptyStr])
          /\ \E o \in login_user(users, u, pw) : Finish(p, o.result, o.events)
    /\ UNCHANGED <<users, now, local, cred>>

----------------------------------------------------------------------------
(* register_user (auth.rs 102-131). *)

\* Line 118: the error of the existence pre-check.
AlreadyExists(username) == Err("Validation", "Usuario '{}' ja existe", username)

\* register_user without the existence pre-check.
register_user_checks_no_precheck(rows, username, password) ==
    LET v == validate_credentials(username, password)
        s == validate_password_strength(password, PasswordConfigDefault)
    IN IF v.tag = "Err"
       THEN [result |-> v, events |-> <<"validate_credentials">>]
       ELSE IF s.tag = "Err"
       THEN [result |-> s,
             events |-> <<"validate_credentials", "validate_password_strength">>]
       ELSE [result |-> Ok(Unit),
             events |-> <<"validate_credentials", "validate_password_strength">>]

\* register_user that reads the store before it validates its arguments.
register_user_checks_select_first(rows, username, password) ==
    LET v == validate_credentials(username, password)
        s == validate_password_strength(password, PasswordConfigDefault)
    IN IF SelectUserExists(rows, username)
       THEN [result |-> AlreadyExists(username), events |-> <<"select_exists">>]
       ELSE IF v.tag = "Err"
       THEN [result |-> v, events |-> <<"select_exists", "validate_credentials">>]
       ELSE IF s.tag = "Err"
       THEN [result |-> s,
             events |-> <<"select_exists", "validate_credentials",
                          "validate_password_strength">>]
       ELSE [result |-> Ok(Unit),
             events |-> <<"select_exists", "validate_credentials",
                          "validate_password_strength">>]

\* Lines 104-119: the checks register_user makes before it hashes: the
\* result (Ok to go on) and the events run.
register_user_checks(rows, username, password) ==
    LET v == validate_credentials(username, password)
        s == validate_password_strength(password, PasswordConfigDefault)
    IN IF v.tag = "Err"
       THEN [result |-> v, events |-> <<"validate_credentials">>]
       ELSE IF s.tag = "Err"
       THEN [result |-> s,
             events |-> <<"validate_credentials", "validate_password_strength">>]
       ELSE IF SelectUserExists(rows, username)
       THEN [result |-> AlreadyExists(username),
             events |-> <<"validate_credentials", "validate_password_strength",
                          "select_exists">>]
       ELSE [result |-> Ok(Unit),
             events |-> <<"validate_credentials", "validate_password_strength",
                          "select_exists">>]

\* Lines 104-122: the checks, then the hash of the password.
RegisterUserCheck(p) ==
    /\ \E u \in Usernames, pw \in Passwords :
          LET c == register_user_checks(users, u, pw) IN
          /\ Begin(p, "register_user",
                   [username |-> u, password |-> pw, new_password |-> EmptyStr])
          /\ IF c.result.tag = "Err"
             THEN Finish(p, c.result, c.events) /\ UNCHANGED local
             ELSE \E salt \in Salts :
                  /\ local' = [local EXCEPT ![p].password_hash =
                                  Some(hash_password(pw, salt).value)]
                  /\ Goto(p, "reg_insert", c.events \o <<"hash_password", "argon2">>)
    /\ UNCHANGED <<users, now, cred>>

\* Lines 125-130: conn.execute(INSERT ..)?; Ok(()) -- what register_user
\* returns for the outcome of the INSERT.
\* register_user that reports an error after an INSERT that was made.
register_user_insert_result_always_err(ins) ==
    FromRusqliteError("IoError")

register_user_insert_result(ins) ==
    IF ins.ok THEN Ok(Unit) ELSE FromRusqliteError(ins.error)

\* Lines 125-130: the INSERT.
RegisterUserInsert(p) ==
    /\ pc[p] = "reg_insert"
    /\ NoneReturning
    /\ \E t \in {x \in Timestamps : x >= now} :
          LET ins == InsertUser(users, args[p].username, local[p].password_hash[1], t) IN
          /\ now' = t
          /\ users' = ins.rows
          /\ cred' = IF ins.ok
                     THEN [cred EXCEPT ![args[p].username] =
                             [by |-> "register_user", password |-> args[p].password,
                              prev |-> EmptyStr]]
                     ELSE cred
          /\ Finish(p, register_user_insert_result(ins),
                    IF ins.ok THEN <<"insert">> ELSE <<"insert_conflict">>)
    /\ UNCHANGED <<calls, op, args, local, existed>>

----------------------------------------------------------------------------
(* change_password (auth.rs 166-186). *)

\* Line 169: the error for a login that returned false.
CurrentPasswordIncorrect == Err("Validation", "Senha atual incorreta", "")

\* change_password that goes on when login_user returned false.
change_password_checks_ignore_false(login, new_password) ==
    LET s == validate_password_strength(new_password, PasswordConfigDefault) IN
    IF login.result.tag = "Err"
    THEN [result |-> login.result, events |-> login.events]
    ELSE IF s.tag = "Err"
    THEN [result |-> s, events |-> login.events \o <<"validate_password_strength">>]
    ELSE [result |-> Ok(Unit),
          events |-> login.events \o <<"validate_password_strength">>]

\* Lines 168-174: the checks change_password makes before it hashes, on the
\* outcome of its login_user call: the result (Ok to go on) and the events.
\* change_password that does not validate the new password.
change_password_checks_no_strength(login, new_password) ==
    IF login.result.tag = "Err"
    THEN [result |-> login.result, events |-> login.events]
    ELSE IF login.result.value # "true"
    THEN [result |-> CurrentPasswordIncorrect, events |-> login.events]
    ELSE [result |-> Ok(Unit), events |-> login.events]

change_password_checks(login, new_password) ==
    LET s == validate_password_strength(new_password, PasswordConfigDefault) IN
    IF login.result.tag = "Err"
    THEN [result |-> login.result, events |-> login.events]
    ELSE IF login.result.value # "true"
    THEN [result |-> CurrentPasswordIncorrect, events |-> login.events]
    ELSE IF s.tag = "Err"
    THEN [result |-> s, events |-> login.events \o <<"validate_password_strength">>]
    ELSE [result |-> Ok(Unit),
          events |-> login.events \o <<"validate_password_strength">>]

\* Lines 168-177: login_user with the old password, the strength check of
\* the new password and its hash.
ChangePasswordLogin(p) ==
    /\ \E u \in Usernames, old \in Passwords, new \in Passwords :
          /\ Begin(p, "change_password",
                   [username |-> u, password |-> old, new_password |-> new])
          /\ \E o \in login_user(users, u, old) :
                LET c == change_password_checks(o, new) IN
                IF c.result.tag = "Err"
                THEN Finish(p, c.result, c.events) /\ UNCHANGED local
                ELSE \E salt \in Salts :
                     /\ local' = [local EXCEPT ![p].password_hash =
                                     Some(hash_password(new, salt).value)]
                     /\ Goto(p, "chg_update", c.events \o <<"hash_password", "argon2">>)
    /\ UNCHANGED <<users, now, cred>>

\* Lines 180-185: the UPDATE; its row count is not looked at.
ChangePasswordUpdate(p) ==
    /\ pc[p] = "chg_update"
    /\ NoneReturning
    /\ LET upd == UpdatePasswordHash(users, local[p].password_hash[1], args[p].username) IN
       /\ users' = upd.rows
       /\ cred' = IF upd.changes > 0
                  THEN [cred EXCEPT ![args[p].username] =
                          [by |-> "change_password", password |-> args[p].new_password,
                           prev |-> args[p].password]]
                  ELSE cred
       /\ Finish(p, Ok(Unit), <<"update">>)
    /\ UNCHANGED <<now, calls, op, args, local, existed>>

----------------------------------------------------------------------------
\* The caller has read the result and is ready for its next call.
Return(p) ==
    /\ pc[p] = "done"
    /\ pc' = [pc EXCEPT ![p] = "idle"]
    /\ op' = [op EXCEPT ![p] = "none"]
    /\ args' = [args EXCEPT ![p] = NoArgs]
    /\ local' = [local EXCEPT ![p] = NoLocal]
    /\ result' = [result EXCEPT ![p] = NoResult]
    /\ trace' = [trace EXCEPT ![p] = <<>>]
    /\ existed' = [existed EXCEPT ![p] = FALSE]
    /\ UNCHANGED <<users, now, calls, cred>>

Next ==
    \E p \in Procs :
        \/ RegisterUserCheck(p)
        \/ RegisterUserInsert(p)
        \/ LoginUser(p)
        \/ ChangePasswordLogin(p)
        \/ ChangePasswordUpdate(p)
        \/ Return(p)

Spec == Init /\ [][Next]_vars

----------------------------------------------------------------------------
(* Faults.  A statement can fail with a rusqlite::Error that is no         *)
(* constraint violation (I/O error, locked or corrupt file), and Argon2    *)
(* can refuse to hash.  A failed statement writes nothing.                 *)

\* The rusqlite errors other than the constraint violation.
StoreFaults == {"IoError"}

\* login_user that takes a failed SELECT for a missing row.
login_user_select_failed_as_none(e) ==
    [result |-> OkBool(FALSE),
     events |-> <<"validate_credentials", "select_password_hash_fault">>
                \o dummy_hash_operation]

\* Lines 141-147: query_row(..).optional()? when the SELECT fails with e.
login_user_select_failed(e) ==
    [result |-> FromRusqliteError(e),
     events |-> <<"validate_credentials", "select_password_hash_fault">>]

\* Lines 111-115: query_row(..)? when the pre-check SELECT fails with e.
register_user_select_failed(e) ==
    [result |-> FromRusqliteError(e),
     events |-> <<"validate_credentials", "validate_password_strength",
                  "select_exists_fault">>]

\* Lines 180-183: conn.execute(UPDATE ..)? when the UPDATE fails with e.
change_password_update_failed(e) == FromRusqliteError(e)

\* Lines 77-79: the map_err of hash_password when Argon2 returns an error.
hash_password_failed == Err("PasswordHashing", "Erro ao hashear senha: {}", "argon2")

\* login_user whose SELECT fails.
LoginUserFault(p) ==
    /\ \E u \in Usernames, pw \in Passwords, e \in StoreFaults :
          /\ Begin(p, "login_user",
                   [username |-> u, password |-> pw, new_password |-> EmptyStr])
          /\ validate_credentials(u, pw).tag = "Ok"
          /\ Finish(p, login_user_select_failed(e).result,
                    login_user_select_failed(e).events)
    /\ UNCHANGED <<users, now, local, cred>>

\* register_user whose pre-check SELECT fails.
RegisterUserCheckFault(p) ==
    /\ \E u \in Usernames, pw \in Passwords, e \in StoreFaults :
          /\ Begin(p, "register_user",
                   [username |-> u, password |-> pw, new_password |-> EmptyStr])
          /\ validate_credentials(u, pw).tag = "Ok"
          /\ validate_password_strength(pw, PasswordConfigDefault).tag = "Ok"
          /\ Finish(p, register_user_select_failed(e).result,
                    register_user_select_failed(e).events)
    /\ UNCHANGED <<users, now, local, cred>>

\* register_user whose hash_password fails.
RegisterUserHashFault(p) ==
    /\ \E u \in Usernames, pw \in Passwords :
          LET c == register_user_checks(users, u, pw) IN
          /\ Begin(p, "register_user",
                   [username |-> u, password |-> pw, new_password |-> EmptyStr])
          /\ c.result.tag = "Ok"
          /\ Finish(p, hash_password_failed, c.events \o <<"hash_password">>)
    /\ UNCHANGED <<users, now, local, cred>>

\* register_user whose INSERT fails with an error that is no conflict.
RegisterUserInsertFault(p) ==
    /\ pc[p] = "reg_insert"
    /\ NoneReturning
    /\ \E e \in StoreFaults :
          Finish(p, register_user_insert_result([ok |-> FALSE, error |-> e, rows |-> users]),
                 <<"insert_fault">>)
    /\ UNCHANGED <<users, now, calls, op, args, local, existed, cred>>

\* change_password whose login_user meets a failed SELECT.
ChangePasswordLoginFault(p) ==
    /\ \E u \in Usernames, old \in Passwords, new \in Passwords, e \in StoreFaults :
          LET c == change_password_checks(login_user_select_failed(e), new) IN
          /\ Begin(p, "change_password",
                   [username |-> u, password |-> old, new_password |-> new])
          /\ validate_credentials(u, old).tag = "Ok"
          /\ c.result.tag = "Err"
          /\ Finish(p, c.result, c.events)
    /\ UNCHANGED <<users, now, local, cred>>

\* change_password whose hash_password fails.
ChangePasswordHashFault(p) ==
    /\ \E u \in Usernames, old \in Passwords, new \in Passwords :
          /\ Begin(p, "change_password",
                   [username |-> u, password |-> old, new_password |-> new])
          /\ \E o \in login_user(users, u, old) :
                LET c == change_password_checks(o, new) IN
                /\ c.result.tag = "Ok"
                /\ Finish(p, hash_password_failed, c.events \o <<"hash_password">>)
    /\ UNCHANGED <<users, now, local, cred>>

\* change_password whose UPDATE fails.
ChangePasswordUpdateFault(p) ==
    /\ pc[p] = "chg_update"
    /\ NoneReturning
    /\ \E e \in StoreFaults :
          Finish(p, change_password_update_failed(e), <<"update_fault">>)
    /\ UNCHANGED <<users, now, calls, op, args, local, existed, cred>>

NextFault ==
    \E p \in Procs :
        \/ RegisterUserCheck(p)
        \/ RegisterUserInsert(p)
        \/ LoginUser(p)
        \/ ChangePasswordLogin(p)
        \/ ChangePasswordUpdate(p)
        \/ Return(p)
        \/ LoginUserFault(p)
        \/ RegisterUserCheckFault(p)
        \/ RegisterUserHashFault(p)
        \/ RegisterUserInsertFault(p)
        \/ ChangePasswordLoginFault(p)
        \/ ChangePasswordHashFault(p)
        \/ ChangePasswordUpdateFault(p)

\* The callers on a store and a hashing engine that can fail.
SpecFault == Init /\ [][NextFault]_vars

\* The events that record a statement that failed with a store fault.
StoreFaultEvents ==
    {"select_password_hash_fault", "select_exists_fault", "insert_fault", "update_fault"}

----------------------------------------------------------------------------
(* validate_password_strength on its own (auth.rs 12-30, 46-70): both      *)
(* callers apply it to one password and one PasswordConfig.                *)

\* Longest password drawn from PolicyChars.
MaxPolicyLen == 3

\* One character of each class the validator tells apart, and one it does not.
PolicyChars == {"1", "S", "a", "!", "e_acute"}

\* A password of 5 characters that takes 8 bytes in UTF-8.
ShortAccented == <<"e_acute", "e_acute", "e_acute", "1", "1">>

PolicyPasswords ==
    UNION {[1..n -> PolicyChars] : n \in 1..MaxPolicyLen}
    \cup Passwords \cup {ShortAccented}

\* The values of PasswordConfig.
PasswordConfigs ==
    [min_length : {0, 2, 8}, require_digit : BOOLEAN, require_uppercase : BOOLEAN,
     require_lowercase : BOOLEAN, require_special : BOOLEAN]

InitPolicy ==
    /\ users = {}
    /\ now = 0
    /\ calls = 0
    /\ pc = [p \in Procs |-> "idle"]
    /\ op = [p \in Procs |-> "none"]
    /\ \E pw \in PolicyPasswords, config \in PasswordConfigs :
          args = [p \in Procs |-> [password |-> pw, config |-> config]]
    /\ local = [p \in Procs |-> NoLocal]
    /\ result = [p \in Procs |-> NoResult]
    /\ trace = [p \in Procs |-> <<>>]
    /\ existed = [p \in Procs |-> FALSE]
    /\ cred = [u \in Usernames |-> NoCred]

ValidatePasswordStrength(p) ==
    /\ pc[p] = "idle"
    /\ op' = [op EXCEPT ![p] = "validate_password_strength"]
    /\ Finish(p, validate_password_strength(args[p].password, args[p].config),
              <<"validate_password_strength">>)
    /\ UNCHANGED <<users, now, calls, args, local, existed, cred>>

NextPolicy == \E p \in Procs : ValidatePasswordStrength(p)

SpecPolicy == InitPolicy /\ [][NextPolicy]_vars

----------------------------------------------------------------------------
(* hash_password and verify_password on their own (auth.rs 73-92): each    *)
(* caller hashes a password, then verifies a password against one of the   *)
(* hashes made.  OsRng is modelled as a source of nonces: a salt drawn is  *)
(* one that no earlier call drew.                                          *)

\* The salts of the hashes made so far.
DrawnSalts ==
    {local[q].password_hash[1][2] : q \in {r \in Procs : local[r].password_hash # None}}

\* The hashes made so far.
HashesMade ==
    {local[q].password_hash[1] : q \in {r \in Procs : local[r].password_hash # None}}

InitHash ==
    /\ users = {}
    /\ now = 0
    /\ calls = 0
    /\ pc = [p \in Procs |-> "idle"]
    /\ op = [p \in Procs |-> "none"]
    /\ args \in [Procs -> [password : Passwords, candidate : {EmptyStr},
                           stored_hash : {None}]]
    /\ local = [p \in Procs |-> NoLocal]
    /\ result = [p \in Procs |-> NoResult]
    /\ trace = [p \in Procs |-> <<>>]
    /\ existed = [p \in Procs |-> FALSE]
    /\ cred = [u \in Usernames |-> NoCred]

\* Lines 73-83: hash_password(password).
HashPassword(p) ==
    /\ pc[p] = "idle"
    /\ op' = [op EXCEPT ![p] = "hash_password"]
    /\ \E salt \in Salts \ DrawnSalts :
          local' = [local EXCEPT ![p].password_hash =
                      Some(hash_password(args[p].password, salt).value)]
    /\ Goto(p, "hashed", <<"hash_password", "argon2">>)
    /\ UNCHANGED <<users, now, calls, args, existed, cred>>

\* Lines 86-92: verify_password(candidate, stored_hash) on a hash made.
VerifyPassword(p) ==
    /\ pc[p] = "hashed"
    /\ op' = [op EXCEPT ![p] = "verify_password"]
    /\ \E q \in Passwords, h \in HashesMade :
          /\ args' = [args EXCEPT ![p].candidate = q, ![p].stored_hash = Some(h)]
          /\ Finish(p, verify_password(q, h), <<"verify_password", "argon2">>)
    /\ UNCHANGED <<users, now, calls, local, existed, cred>>

NextHash == \E p \in Procs : HashPassword(p) \/ VerifyPassword(p)

SpecHash == InitHash /\ [][NextHash]_vars

----------------------------------------------------------------------------
(* register_user and change_password on one string (auth.rs 102-131,      *)
(* 166-186): caller 1 registers a username that has no row with the       *)
(* string as password, caller 2 changes the password of a registered      *)
(* username, giving its password, to the string.  Each call is one step.   *)

\* The store after register_user("alice", Secret123).
StoreWithAlice == InsertUser({}, "alice", hash_password(Secret123, 1).value, 0).rows

InitSamePolicy ==
    /\ users = StoreWithAlice
    /\ now = 0
    /\ calls = 0
    /\ pc = [p \in Procs |-> "idle"]
    /\ op = [p \in Procs |-> "none"]
    /\ \E s \in PolicyPasswords :
          args = [p \in Procs |->
                    IF p = 1
                    THEN [username |-> "bob", password |-> s, new_password |-> EmptyStr]
                    ELSE [username |-> "alice", password |-> Secret123, new_password |-> s]]
    /\ local = [p \in Procs |-> NoLocal]
    /\ result = [p \in Procs |-> NoResult]
    /\ trace = [p \in Procs |-> <<>>]
    /\ existed = [p \in Procs |-> FALSE]
    /\ cred = [u \in Usernames |-> NoCred]

\* Lines 102-131: register_user(args.username, args.password).
RegisterUserCall(p) ==
    /\ pc[p] = "idle" /\ p = 1
    /\ op' = [op EXCEPT ![p] = "register_user"]
    /\ LET c == register_user_checks(users, args[p].username, args[p].password) IN
       IF c.result.tag = "Err"
       THEN Finish(p, c.result, c.events) /\ UNCHANGED <<users, local>>
       ELSE \E salt \in Salts :
               LET h == hash_password(args[p].password, salt).value
                   ins == InsertUser(users, args[p].username, h, now)
               IN /\ local' = [local EXCEPT ![p].password_hash = Some(h)]
                  /\ users' = ins.rows
                  /\ Finish(p, register_user_insert_result(ins),
                            c.events \o <<"hash_password", "argon2", "insert">>)
    /\ UNCHANGED <<now, calls, args, existed, cred>>

\* Lines 166-186: change_password(args.username, args.password, args.new_password).
ChangePasswordCall(p) ==
    /\ pc[p] = "idle" /\ p = 2
    /\ op' = [op EXCEPT ![p] = "change_password"]
    /\ \E o \in login_user(users, args[p].username, args[p].password) :
          LET c == change_password_checks(o, args[p].new_password) IN
          IF c.result.tag = "Err"
          THEN Finish(p, c.result, c.events) /\ UNCHANGED <<users, local>>
          ELSE \E salt \in Salts :
                  LET h == hash_password(args[p].new_password, salt).value IN
                  /\ local' = [local EXCEPT ![p].password_hash = Some(h)]
                  /\ users' = UpdatePasswordHash(users, h, args[p].username).rows
                  /\ Finish(p, Ok(Unit),
                            c.events \o <<"hash_password", "argon2", "update">>)
    /\ UNCHANGED <<now, calls, args, existed, cred>>

NextSamePolicy == \E p \in Procs : RegisterUserCall(p) \/ ChangePasswordCall(p)

SpecSamePolicy == InitSamePolicy /\ [][NextSamePolicy]_vars

----------------------------------------------------------------------------
(* Administrative deletion (db.rs 97-103) next to the three operations.    *)

\* DELETE FROM users WHERE username = ?1
DeleteFromUsers(rows, username) ==
    [changes |-> Cardinality(RowsOf(rows, username)),
     rows |-> {r \in rows : r.username # username}]

\* Database::delete_user(username): one statement, Ok(rows_affected > 0).
DeleteUser(p) ==
    /\ \E u \in Usernames :
          LET del == DeleteFromUsers(users, u) IN
          /\ Begin(p, "delete_user",
                   [username |-> u, password |-> EmptyStr, new_password |-> EmptyStr])
          /\ users' = del.rows
          /\ cred' = [cred EXCEPT ![u] = NoCred]
          /\ Finish(p, OkBool(del.changes > 0), <<"delete">>)
    /\ UNCHANGED <<now, local>>

NextAdmin ==
    \E p \in Procs :
        \/ RegisterUserCheck(p)
        \/ RegisterUserInsert(p)
        \/ LoginUser(p)
        \/ ChangePasswordLogin(p)
        \/ ChangePasswordUpdate(p)
        \/ Return(p)
        \/ DeleteUser(p)

\* The callers of the three operations and of delete_user on one store.
SpecAdmin == Init /\ [][NextAdmin]_vars

----------------------------------------------------------------------------
(* Vocabulary of the properties. *)

\* Caller p takes the first step of a call of function name.
Starts(p, name) == pc[p] = "idle" /\ pc'[p] # "idle" /\ op'[p] = name

\* Caller p takes the step on which its call of function name returns.
Finishes(p, name) == pc[p] # "done" /\ pc'[p] = "done" /\ op'[p] = name

\* u has a row in the store.
HasRecord(u) == \E r \in users : r.username = u

\* u was registered by the service and pw is the password last set for u.
IsPasswordOf(u, pw) == cred[u].by # "none" /\ cred[u].password = pw

\* u was registered by the service with a password other than pw.
IsWrongPasswordOf(u, pw) == cred[u].by # "none" /\ cred[u].password # pw

\* The default policy in the words of the specification: at least 8 long,
\* with a digit.
MeetsDefaultPolicy(pw) == Len(pw) >= 8 /\ \E i \in 1..Len(pw) : pw[i] \in Digits

\* Number of times event e occurs in the trace t.
Count(t, e) == Cardinality({i \in 1..Len(t) : t[i] = e})

----------------------------------------------------------------------------
\* C1: register_user(u, p) with a non-empty u and a p that meets the default
\* policy, run on a store in which u has no row, returns Ok(()) and leaves a
\* row for u; and login_user(u, p), run while p is the password register_user
\* last stored for u, returns Ok(true).
C1_RegisterThenLogin ==
    [][\A p \in Procs :
        LET u == args'[p].username
            pw == args'[p].password
        IN /\ (/\ Finishes(p, "register_user")
               /\ u # "" /\ MeetsDefaultPolicy(pw)
               /\ ~HasRecord(u))
              => (result'[p] = Ok(Unit) /\ \E r \in users' : r.username = u)
           /\ (/\ Starts(p, "register_user")
               /\ u # "" /\ MeetsDefaultPolicy(pw)
               /\ ~HasRecord(u))
              => pc'[p] = "reg_insert"
           /\ (/\ Finishes(p, "login_user")
               /\ cred[u].by = "register_user" /\ cred[u].password = pw)
              => result'[p] = OkBool(TRUE)]_vars

\* C1 witness: a login with the password of a finished registration has
\* returned true.
C1_Witness ==
    \E p \in Procs :
        /\ pc[p] = "done" /\ op[p] = "login_user"
        /\ cred[args[p].username].by = "register_user"
        /\ cred[args[p].username].password = args[p].password
        /\ MeetsDefaultPolicy(args[p].password)
        /\ result[p] = OkBool(TRUE)

\* C2 as stated: login_user(u, w) returns Ok(false) for every w other than
\* the password registered for u, and for every w when u has no row.
C2_WrongOrAbsentIsFalse_AnyPassword ==
    [][\A p \in Procs :
        LET u == args'[p].username
            w == args'[p].password
        IN (/\ Finishes(p, "login_user")
            /\ u # ""
            /\ (IsWrongPasswordOf(u, w) \/ ~HasRecord(u)))
           => result'[p] = OkBool(FALSE)]_vars

\* C2 amended: login_user(u, w) returns Ok(false) for every non-empty w other
\* than the password registered for u, and for every non-empty w when u
\* has no row.
C2_WrongOrAbsentIsFalse ==
    [][\A p \in Procs :
        LET u == args'[p].username
            w == args'[p].password
        IN (/\ Finishes(p, "login_user")
            /\ u # "" /\ w # EmptyStr
            /\ (IsWrongPasswordOf(u, w) \/ ~HasRecord(u)))
           => result'[p] = OkBool(FALSE)]_vars

\* C2 witness: a login with a wrong, non-empty password for a registered
\* user has returned false.
C2_Witness ==
    \E p \in Procs :
        /\ pc[p] = "done" /\ op[p] = "login_user"
        /\ args[p].password # EmptyStr
        /\ IsWrongPasswordOf(args[p].username, args[p].password)
        /\ result[p] = OkBool(FALSE)

\* C3 as stated: a register_user call whose INSERT hit the uniqueness conflict
\* returns the Validation "already exists" error of the pre-check.
C3_ConflictIsValidation ==
    \A p \in Procs :
        (/\ pc[p] = "done" /\ op[p] = "register_user"
         /\ Count(trace[p], "insert_conflict") > 0)
        => (result[p].tag = "Err" /\ result[p].error = "Validation")

\* C4: the store holds at most one row per username.
C4_OneRecordPerUsername ==
    \A u \in Usernames : Cardinality(RowsOf(users, u)) <= 1

\* C4 witness: two registrations of one username raced, both passed the
\* pre-check, and the store kept a single row.
C4_Witness ==
    \E p \in Procs :
        /\ pc[p] = "done" /\ op[p] = "register_user"
        /\ Count(trace[p], "insert_conflict") > 0
        /\ Cardinality(RowsOf(users, args[p].username)) = 1

\* C5: register_user for a username that has a row when it is called returns
\* a Validation error whatever the password (valid, weak or empty), and
\* leaves the store, and so the password that authenticates, as it was.
C5_ReRegisterFails ==
    [][\A p \in Procs :
        (Starts(p, "register_user") /\ HasRecord(args'[p].username))
        => /\ pc'[p] = "done"
           /\ result'[p].tag = "Err" /\ result'[p].error = "Validation"
           /\ users' = users
           /\ cred' = cred]_vars

\* C5 witness: a registration with a password that meets the policy was
\* refused because the username has a row.
C5_Witness ==
    \E p \in Procs :
        /\ pc[p] = "done" /\ op[p] = "register_user"
        /\ existed[p]
        /\ MeetsDefaultPolicy(args[p].password)
        /\ result[p] = AlreadyExists(args[p].username)

\* C6: change_password(u, old, new) called with an old password that does not
\* match the hash stored for u returns an error and leaves the store, and
\* so the password that authenticates, as it was.
C6_WrongOldPasswordChangesNothing ==
    [][\A p \in Procs :
        (/\ Starts(p, "change_password")
         /\ HasRecord(args'[p].username)
         /\ ~IsPasswordOf(args'[p].username, args'[p].password))
        => /\ pc'[p] = "done"
           /\ result'[p].tag = "Err"
           /\ users' = users
           /\ cred' = cred]_vars

\* C6 witness: a change_password with a wrong old password and a new password
\* that meets the policy was refused.
C6_Witness ==
    \E p \in Procs :
        /\ pc[p] = "done" /\ op[p] = "change_password"
        /\ IsWrongPasswordOf(args[p].username, args[p].password)
        /\ args[p].password # EmptyStr
        /\ MeetsDefaultPolicy(args[p].new_password)
        /\ result[p].tag = "Err"

\* C7: while the password of u is the one a successful
\* change_password(u, old, new) with new # old stored, login_user(u, old)
\* returns Ok(false) and login_user(u, new) returns Ok(true).
C7_AfterChange ==
    [][\A p \in Procs :
        LET u == args'[p].username
            pw == args'[p].password
        IN (/\ Finishes(p, "login_user")
            /\ cred[u].by = "change_password"
            /\ cred[u].prev # cred[u].password)
           => /\ (pw = cred[u].prev => result'[p] = OkBool(FALSE))
              /\ (pw = cred[u].password => result'[p] = OkBool(TRUE))]_vars

\* C7 witness: after a password change, a login with the old password was
\* refused.
C7_Witness ==
    \E p \in Procs :
        /\ pc[p] = "done" /\ op[p] = "login_user"
        /\ cred[args[p].username].by = "change_password"
        /\ cred[args[p].username].prev = args[p].password
        /\ cred[args[p].username].password # args[p].password
        /\ result[p] = OkBool(FALSE)

\* C8: a login_user call with non-empty arguments runs exactly one of
\* verify_password (a row was found) and dummy_hash_operation (none was),
\* and exactly one Argon2 computation unless the stored hash does not
\* parse; with no row it returns Ok(false).
C8_AlwaysHashSomething ==
    [][\A p \in Procs :
        LET u == args'[p].username
            t == trace'[p]
        IN (Finishes(p, "login_user") /\ u # "" /\ args'[p].password # EmptyStr)
           => /\ HasRecord(u) =>
                    /\ Count(t, "verify_password") = 1
                    /\ Count(t, "dummy_hash_operation") = 0
              /\ ~HasRecord(u) =>
                    /\ Count(t, "verify_password") = 0
                    /\ Count(t, "dummy_hash_operation") = 1
                    /\ result'[p] = OkBool(FALSE)
              /\ (\A r \in RowsOf(users, u) : r.password_hash # MalformedHash)
                    => Count(t, "argon2") = 1]_vars

\* C8 witness: a login for a username with no row has run the decoy hash and
\* returned false.
C8_Witness ==
    \E p \in Procs :
        /\ pc[p] = "done" /\ op[p] = "login_user"
        /\ ~HasRecord(args[p].username)
        /\ Count(trace[p], "dummy_hash_operation") = 1
        /\ result[p] = OkBool(FALSE)

\* C9: change_password with a non-empty old password returns the same
\* Validation("Senha atual incorreta") error, and leaves the store as it
\* was, when the username has no row and when it has one with another
\* password.
C9_WrongUserLooksLikeWrongPassword ==
    [][\A p \in Procs :
        LET u == args'[p].username
            old == args'[p].password
        IN (/\ Starts(p, "change_password")
            /\ u # "" /\ old # EmptyStr
            /\ (~HasRecord(u) \/ IsWrongPasswordOf(u, old)))
           => /\ pc'[p] = "done"
              /\ result'[p] = Err("Validation", "Senha atual incorreta", "")
              /\ users' = users]_vars

\* C9 witness: a change_password for a username with no row was refused with
\* the error of a wrong current password.
C9_Witness ==
    \E p \in Procs :
        /\ pc[p] = "done" /\ op[p] = "change_password"
        /\ ~HasRecord(args[p].username)
        /\ args[p].username # "" /\ args[p].password # EmptyStr
        /\ result[p] = Err("Validation", "Senha atual incorreta", "")

\* C10 as stated: login_user with non-empty arguments on a username whose
\* stored hash is malformed returns a Database error.
C10_MalformedHashIsDatabaseError ==
    \A p \in Procs :
        (/\ pc[p] = "done" /\ op[p] = "login_user"
         /\ args[p].username # "" /\ args[p].password # EmptyStr
         /\ \E r \in RowsOf(users, args[p].username) : r.password_hash = MalformedHash)
        => (result[p].tag = "Err" /\ result[p].error = "Database")

\* C10 amended: login_user with non-empty arguments on a username whose
\* stored hash is malformed returns a PasswordHashing error, never Ok(false)
\* or Ok(true).
C10_MalformedHashIsHashingError ==
    \A p \in Procs :
        (/\ pc[p] = "done" /\ op[p] = "login_user"
         /\ args[p].username # "" /\ args[p].password # EmptyStr
         /\ \E r \in RowsOf(users, args[p].username) : r.password_hash = MalformedHash)
        => (result[p].tag = "Err" /\ result[p].error = "PasswordHashing")

\* C10 witness: a login on a username whose stored hash is malformed has
\* returned.
C10_Witness ==
    \E p \in Procs :
        /\ pc[p] = "done" /\ op[p] = "login_user"
        /\ args[p].password # EmptyStr
        /\ \E r \in RowsOf(users, args[p].username) : r.password_hash = MalformedHash
        /\ result[p].tag = "Err"


\* C11: a step of register_user, login_user or change_password on which a
\* statement fails with a store fault that is no duplicate-username conflict
\* ends the call with the Database error made from that fault, never with
\* Ok(()), Ok(true) or Ok(false); and a login_user that returns Ok(false)
\* without having verified a stored hash is one whose SELECT ran without a
\* fault and found no row.
C11_StoreFaultIsDatabaseError ==
    [][\A p \in Procs :
        LET added == {trace'[p][i] : i \in (Len(trace[p]) + 1)..Len(trace'[p])} IN
        /\ (Len(trace'[p]) > Len(trace[p]) /\ added \cap StoreFaultEvents # {})
           => /\ pc'[p] = "done"
              /\ op'[p] \in {"register_user", "login_user", "change_password"}
              /\ result'[p] \in {FromRusqliteError(e) : e \in StoreFaults}
              /\ result'[p].tag = "Err" /\ result'[p].error = "Database"
        /\ (/\ Finishes(p, "login_user")
            /\ result'[p] = OkBool(FALSE)
            /\ "verify_password" \notin added)
           => /\ "select_password_hash" \in added
              /\ ~HasRecord(args'[p].username)]_vars

\* C11 witness: a change_password whose UPDATE failed with a store fault has
\* returned a Database error.
C11_Witness ==
    \E p \in Procs :
        /\ pc[p] = "done" /\ op[p] = "change_password"
        /\ Count(trace[p], "update_fault") = 1
        /\ result[p].tag = "Err" /\ result[p].error = "Database"


\* The rules of a PasswordConfig in the order of the specification.
RuleOrder == <<"length", "digit", "uppercase", "lowercase", "special">>

\* The password breaks the rule and the policy has the rule on.  The length is
\* the one the validator measures, str::len().
ViolatesRule(password, config, rule) ==
    CASE rule = "length" -> StrLen(password) < config.min_length
      [] rule = "digit" -> config.require_digit /\ ~AnyChar(password, Digits)
      [] rule = "uppercase" -> config.require_uppercase /\ ~AnyChar(password, Uppers)
      [] rule = "lowercase" -> config.require_lowercase /\ ~AnyChar(password, Lowers)
      [] rule = "special" -> config.require_special /\ ~AnyChar(password, Specials)

\* The rule a message of validate_password_strength reports.
RuleOfMessage(fmt) ==
    CASE fmt = "A senha deve ter pelo menos {} caracteres" -> "length"
      [] fmt = "A senha deve conter pelo menos um numero" -> "digit"
      [] fmt = "A senha deve conter pelo menos uma letra maiuscula" -> "uppercase"
      [] fmt = "A senha deve conter pelo menos uma letra minuscula" -> "lowercase"
      [] fmt = "A senha deve conter pelo menos um caractere especial" -> "special"
      [] OTHER -> "none"

\* C12: for every policy and every password, validate_password_strength
\* returns Ok(()) when no enabled rule is violated and otherwise one
\* Validation error, the one of the earliest violated rule in the order
\* length, digit, uppercase, lowercase, special (so a password that violates
\* the length and the digit rule reports the length); and two applications
\* to the same password and policy return the same result.
C12_FirstViolatedRule ==
    /\ \A p \in Procs :
          (pc[p] = "done" /\ op[p] = "validate_password_strength")
          => LET violated == {i \in 1..Len(RuleOrder) :
                                ViolatesRule(args[p].password, args[p].config, RuleOrder[i])}
             IN IF violated = {}
                THEN result[p] = Ok(Unit)
                ELSE /\ result[p].tag = "Err" /\ result[p].error = "Validation"
                     /\ \E i \in violated :
                           /\ \A j \in violated : i <= j
                           /\ RuleOfMessage(result[p].fmt) = RuleOrder[i]
    /\ (\A p \in Procs : pc[p] = "done" /\ op[p] = "validate_password_strength")
       => \A p, q \in Procs : result[p] = result[q]

\* C12 witness: a password that violates the length rule and the digit rule
\* of its policy was reported as too short.
C12_Witness ==
    \E p \in Procs :
        /\ pc[p] = "done" /\ op[p] = "validate_password_strength"
        /\ ViolatesRule(args[p].password, args[p].config, "length")
        /\ ViolatesRule(args[p].password, args[p].config, "digit")
        /\ Len(args[p].password) > 0
        /\ RuleOfMessage(result[p].fmt) = "length"


\* C13: two hash_password calls return different hash strings, on the same
\* password as on different ones; and verify_password(q, h) on a hash h that
\* hash_password made of a password p returns Ok(true) when q = p and
\* Ok(false) when q # p.
C13_FreshSaltAndVerify ==
    /\ \A p, q \in Procs :
          (p # q /\ local[p].password_hash # None /\ local[q].password_hash # None)
          => local[p].password_hash # local[q].password_hash
    /\ \A p \in Procs :
          (pc[p] = "done" /\ op[p] = "verify_password")
          => \A q \in Procs :
                local[q].password_hash = args[p].stored_hash
                => result[p] = OkBool(args[p].candidate = args[q].password)

\* C13 witness: two calls hashed the same password into different strings;
\* one hash verified its password and the other refused another password.
C13_Witness ==
    /\ args[1].password = args[2].password
    /\ local[1].password_hash # None /\ local[2].password_hash # None
    /\ local[1].password_hash # local[2].password_hash
    /\ \A p \in Procs : pc[p] = "done" /\ op[p] = "verify_password"
    /\ args[1].candidate = args[1].password /\ result[1] = OkBool(TRUE)
    /\ args[2].candidate # args[2].password /\ result[2] = OkBool(FALSE)


\* C14: a call of register_user or change_password changes the store on no
\* step but the one on which it returns Ok(()): on the step on which it
\* returns an error, and on every step before it, the rows of users, and so
\* every stored hash, are what they were before the step.
C14_NoPartialEffect ==
    [][\A p \in Procs :
        (/\ pc'[p] # pc[p]
         /\ op'[p] \in {"register_user", "change_password"}
         /\ ~(pc'[p] = "done" /\ result'[p] = Ok(Unit)))
        => users' = users]_vars

\* C14 witness: a register_user whose INSERT failed has returned an error and
\* the username it was to add has no row.
C14_Witness ==
    \E p \in Procs :
        /\ pc[p] = "done" /\ op[p] = "register_user"
        /\ Count(trace[p], "insert_fault") = 1
        /\ result[p].tag = "Err"
        /\ ~HasRecord(args[p].username)


\* The steps of register_user in the order of the specification.
RegisterOrder ==
    <<"validate_credentials", "validate_password_strength", "select_exists",
      "hash_password", "insert">>

\* The steps in a trace of register_user: the Argon2 computation is part of
\* hash_password and an INSERT refused by UNIQUE is an INSERT.
RECURSIVE RegisterSteps(_)
RegisterSteps(t) ==
    IF t = <<>> THEN <<>>
    ELSE IF Head(t) = "argon2" THEN RegisterSteps(Tail(t))
    ELSE IF Head(t) = "insert_conflict" THEN <<"insert">> \o RegisterSteps(Tail(t))
    ELSE <<Head(t)>> \o RegisterSteps(Tail(t))

\* C15: the steps a register_user call has run are an initial part of the
\* order empty checks, strength check, existence check, hash, insert, and
\* the call stops at the first step that fails: with an empty username or
\* password it runs the empty checks only; with a password that fails the
\* policy the two validations only (no store read, no hash, no insert); on
\* a username that has a row the three checks only (no hash, no insert);
\* otherwise it goes on to the hash and then to the insert.
C15_RegisterStepOrder ==
    \A p \in Procs :
        (op[p] = "register_user" /\ pc[p] \in {"reg_insert", "done"})
        => LET steps == RegisterSteps(trace[p])
               u == args[p].username
               pw == args[p].password
           IN /\ \E n \in 1..Len(RegisterOrder) : steps = SubSeq(RegisterOrder, 1, n)
              /\ IF u = "" \/ pw = EmptyStr
                 THEN steps = SubSeq(RegisterOrder, 1, 1) /\ result[p].error = "Validation"
                 ELSE IF ~MeetsDefaultPolicy(pw)
                 THEN steps = SubSeq(RegisterOrder, 1, 2) /\ result[p].error = "Validation"
                 ELSE IF existed[p]
                 THEN steps = SubSeq(RegisterOrder, 1, 3) /\ result[p].error = "Validation"
                 ELSE IF pc[p] = "reg_insert"
                 THEN steps = SubSeq(RegisterOrder, 1, 4)
                 ELSE steps = RegisterOrder

\* C15 witness: a register_user on a username that had a row has returned
\* after the existence check, having hashed and inserted nothing.
C15_Witness ==
    \E p \in Procs :
        /\ pc[p] = "done" /\ op[p] = "register_user"
        /\ existed[p]
        /\ trace[p] = <<"validate_credentials", "validate_password_strength",
                        "select_exists">>
        /\ result[p] = AlreadyExists(args[p].username)


\* The columns of a row that no operation rewrites.
Identity(r) == [id |-> r.id, username |-> r.username, created_at |-> r.created_at]

\* C16: the step on which change_password(u, old, new) returns Ok(()) leaves
\* every row of another username as it was, keeps the id, username and
\* created_at of the row of u, and neither adds nor removes a row: the only
\* column it can change is the password_hash of the row of u.  The steps of
\* the call before it change nothing.
C16_OnlyTheHashOfU ==
    [][\A p \in Procs :
        LET u == args'[p].username IN
        /\ (Finishes(p, "change_password") /\ result'[p] = Ok(Unit))
           => /\ {r \in users' : r.username # u} = {r \in users : r.username # u}
              /\ {Identity(r) : r \in users'} = {Identity(r) : r \in users}
              /\ Cardinality(users') = Cardinality(users)
              /\ \A r \in RowsOf(users', u) : r.password_hash = local[p].password_hash[1]
        /\ (pc'[p] # pc[p] /\ op'[p] = "change_password" /\ pc'[p] # "done")
           => users' = users]_vars

\* C16 witness: a change_password has returned Ok(()) on a store that holds
\* a row of another username, and the row of its username holds the new hash.
C16_Witness ==
    \E p \in Procs :
        /\ pc[p] = "done" /\ op[p] = "change_password" /\ result[p] = Ok(Unit)
        /\ \E r \in users : r.username # args[p].username
        /\ \E r \in users :
              /\ r.username = args[p].username
              /\ r.password_hash = local[p].password_hash[1]
              /\ verify_password(args[p].new_password, r.password_hash) = OkBool(TRUE)


\* The call of caller p was rejected with a Validation error.
RejectedAsValidation(p) ==
    pc[p] = "done" /\ result[p].tag = "Err" /\ result[p].error = "Validation"

\* C17: for every string s, change_password with the right old password
\* rejects s as new password with a Validation error exactly when
\* register_user on a username without a row rejects s as password with a
\* Validation error; and each of the two calls either is rejected so or
\* returns Ok(()).
C17_SamePolicy ==
    (\A p \in Procs : pc[p] = "done")
    => /\ args[1].password = args[2].new_password
       /\ RejectedAsValidation(1) <=> RejectedAsValidation(2)
       /\ \A p \in Procs : RejectedAsValidation(p) \/ result[p] = Ok(Unit)

\* C17 witness: both calls have rejected a non-empty string with a
\* Validation error.
C17_Witness ==
    /\ op[1] = "register_user" /\ op[2] = "change_password"
    /\ args[1].password # EmptyStr
    /\ args[1].password = args[2].new_password
    /\ RejectedAsValidation(1) /\ RejectedAsValidation(2)


\* C18: login_user leaves the store as it was on every outcome: Ok(true),
\* Ok(false), a Validation error, a PasswordHashing error and a Database
\* error.  This holds for login_user called on its own and for the
\* login_user that change_password runs as its first step.
C18_LoginReadsOnly ==
    [][\A p \in Procs :
        (\/ Starts(p, "login_user")
         \/ Starts(p, "change_password"))
        => users' = users]_vars

\* C18 witness: a login_user on a username that has a row has returned
\* Ok(false) and the row is there.
C18_Witness ==
    \E p \in Procs :
        /\ pc[p] = "done" /\ op[p] = "login_user"
        /\ result[p] = OkBool(FALSE)
        /\ HasRecord(args[p].username)
        /\ IsWrongPasswordOf(args[p].username, args[p].password)


\* C19: the step on which register_user(u, p) returns Ok(()) adds one row,
\* a row of u whose hash verifies p, to a store that had no row of u, and
\* keeps every row the store had; every other step of a register_user call
\* leaves the store as it was.  So no register_user step, under any
\* interleaving, removes a row or replaces a stored hash.
C19_RegisterAddsOneRow ==
    [][\A p \in Procs :
        (pc'[p] # pc[p] /\ op'[p] = "register_user")
        => IF pc'[p] = "done" /\ result'[p] = Ok(Unit)
           THEN /\ ~HasRecord(args'[p].username)
                /\ users \subseteq users'
                /\ Cardinality(users') = Cardinality(users) + 1
                /\ \A r \in users' \ users :
                      /\ r.username = args'[p].username
                      /\ verify_password(args'[p].password, r.password_hash) = OkBool(TRUE)
           ELSE users' = users]_vars

\* C19 witness: a register_user has returned Ok(()); the store holds its row
\* next to the row it held before, and that row is as it was.
C19_Witness ==
    \E p \in Procs :
        /\ pc[p] = "done" /\ op[p] = "register_user" /\ result[p] = Ok(Unit)
        /\ Row(1, "bob", MalformedHash, 0) \in users
        /\ \E r \in users :
              /\ r.username = args[p].username /\ r.username # "bob"
              /\ verify_password(args[p].password, r.password_hash) = OkBool(TRUE)


\* C20: the step on which change_password(u, old, new) returns Ok(()) is one
\* whose UPDATE found a row of u and left the new hash in it, also when
\* Database::delete_user(u) runs between the login_user of the call and its
\* UPDATE.
C20_SuccessMeansUpdated ==
    [][\A p \in Procs :
        LET u == args'[p].username IN
        (Finishes(p, "change_password") /\ result'[p] = Ok(Unit))
        => /\ UpdatePasswordHash(users, local[p].password_hash[1], u).changes > 0
           /\ \E r \in users' :
                 r.username = u /\ r.password_hash = local[p].password_hash[1]]_vars


\* C21: the step on which change_password(u, old, new) returns Ok(()) finds
\* in the row of u a hash that old still verifies: a call that authenticated
\* with a password that another change_password has replaced since does not
\* overwrite the hash, so of two interleaved calls on u with the same old
\* password at most one succeeds.
C21_NoStaleOverwrite ==
    [][\A p \in Procs :
        (Finishes(p, "change_password") /\ result'[p] = Ok(Unit))
        => \E r \in RowsOf(users, args'[p].username) :
              verify_password(args'[p].password, r.password_hash) = OkBool(TRUE)]_vars


\* C22: validate_password_strength with the default policy returns the
\* Validation error of the length rule for every password of fewer than 8
\* characters, a character of several bytes counting as one.
C22_ShortIsRejected ==
    \A p \in Procs :
        (/\ pc[p] = "done" /\ op[p] = "validate_password_strength"
         /\ args[p].config = PasswordConfigDefault
         /\ Len(args[p].password) < PasswordConfigDefault.min_length)
        => /\ result[p].tag = "Err" /\ result[p].error = "Validation"
           /\ RuleOfMessage(result[p].fmt) = "length"

====
